---- MODULE Spec2Model ----
(***************************************************************************)
(* Model of egui_kittest's TestRenderer (crates/egui_kittest/src/wgpu.rs): *)
(* construction from a WgpuSetup or from a (device, queue) pair, the       *)
(* with_dithering builder, and the render pipeline, one action per         *)
(* statement of the source that issues a call.  Options are sequences of   *)
(* length at most one (<<>> is None, <<x>> is Some(x)).                     *)
(***************************************************************************)
EXTENDS Integers, Sequences, FiniteSets, TLC

\* ---- bounds of the model ------------------------------------------------
MaxDeltas == 2
MaxUploads == 2
MaxUserBuffers == 2

\* ---- handles and inputs -------------------------------------------------
Devices == {"devA", "devB"}
Queues == {"queA", "queB"}
Adapters == {"adapter1", "adapter2"}
Backends == {"PRIMARY", "GL"}
PowerPreferences == {"LowPower", "HighPerformance"}
TextureIds == {"tex1", "tex2"}
ShapeLists == {<<>>, <<"rect", "text">>}
NoHandle == "none"

\* Arc::new(device), Arc::new(queue) of the pair request_device returned.
CreatedDevice(a) == "dev_of_" \o a
CreatedQueue(a) == "que_of_" \o a

AllDevices == Devices \cup {CreatedDevice(a) : a \in Adapters}
AllQueues == Queues \cup {CreatedQueue(a) : a \in Adapters}

SeqsUpTo(S, n) == UNION {[1..m -> S] : m \in 0..n}

\* egui_wgpu::WgpuSetup, the argument of TestRenderer::new.
CreateNewSetups ==
    [kind : {"CreateNew"}, supported_backends : Backends,
     power_preference : PowerPreferences, force_fallback_adapter : BOOLEAN,
     native_adapter_selector : BOOLEAN, device : {NoHandle}, queue : {NoHandle}]
ExistingSetups ==
    [kind : {"Existing"}, supported_backends : {"PRIMARY"},
     power_preference : {"LowPower"}, force_fallback_adapter : {FALSE},
     native_adapter_selector : {FALSE}, device : Devices, queue : Queues]
NoSetup ==
    [kind |-> "none", supported_backends |-> "PRIMARY",
     power_preference |-> "LowPower", force_fallback_adapter |-> FALSE,
     native_adapter_selector |-> FALSE, device |-> NoHandle, queue |-> NoHandle]

\* The part of a Harness that render reads: at most MaxDeltas texture deltas that
\* set at most MaxUploads textures between them, and the output shapes.
TexturesDeltas == [set : SeqsUpTo(TextureIds, MaxUploads)]
RECURSIVE SetCount(_)
SetCount(deltas) ==
    IF deltas = <<>> THEN 0 ELSE Len(Head(deltas).set) + SetCount(Tail(deltas))
Harnesses ==
    [texture_deltas : {ds \in SeqsUpTo(TexturesDeltas, MaxDeltas) : SetCount(ds) <= MaxUploads},
     shapes : ShapeLists]
NoHarness == [texture_deltas |-> <<>>, shapes |-> <<>>]

VARIABLES
    pc,           \* position: "none", the steps of new, "idle", the steps of render, "panicked"
    setup,        \* new: the wgpu_setup argument
    calls,        \* new: the calls made so far while acquiring adapter and device
    adapter,      \* new: the local adapter (Option)
    local,        \* new: the (device, queue) pair the match evaluates to
    self,         \* the TestRenderer: device, queue, dithering
    built,        \* history: the handles the TestRenderer was constructed with
    lastArg,      \* history: the argument of the last with_dithering call (Option)
    harness,      \* render: the harness argument
    renderer,     \* render: the local egui_wgpu::Renderer
    earlier,      \* history: the textures uploaded to the renderers of earlier render calls
    k,            \* render: index of the next texture upload
    encoder,      \* render: commands recorded in the local command encoder
    tessellated,  \* render: the local tessellated primitives
    user_buffers, \* render: the command buffers update_buffers returned
    texture,      \* render: the local target texture
    pending,      \* command buffers submitted to the queue and not yet executed
    ops,          \* render: the calls of the current render call, with the handles used
    submits,      \* render: the argument of each queue.submit of the call
    image         \* render: the returned image (Option)

vars == <<pc, setup, calls, adapter, local, self, built, lastArg, harness, renderer,
          earlier, k, encoder, tessellated, user_buffers, texture, pending, ops, submits, image>>

newVars == <<setup, calls, adapter, local>>
renderVars == <<harness, renderer, earlier, k, encoder, tessellated, user_buffers, texture,
                pending, ops, submits, image>>

NoPair == [device |-> NoHandle, queue |-> NoHandle]
NoTestRenderer == [device |-> NoHandle, queue |-> NoHandle, dithering |-> FALSE]
NoEguiRenderer == [device |-> NoHandle, dithering |-> FALSE, textures |-> {}]
NoTexture == [created |-> FALSE, content |-> <<>>]

RenderPcs == {"upload", "tessellate", "update_buffers", "create_texture", "render_pass",
              "submit", "poll", "readback", "returned"}
Constructed == pc \in {"idle"} \cup RenderPcs

Init ==
    /\ pc = "none"
    /\ setup = NoSetup
    /\ calls = <<>>
    /\ adapter = <<>>
    /\ local = NoPair
    /\ self = NoTestRenderer
    /\ built = NoPair
    /\ lastArg = <<>>
    /\ harness = NoHarness
    /\ renderer = NoEguiRenderer
    /\ earlier = {}
    /\ k = 1
    /\ encoder = <<>>
    /\ tessellated = <<>>
    /\ user_buffers = <<>>
    /\ texture = NoTexture
    /\ pending = <<>>
    /\ ops = <<>>
    /\ submits = <<>>
    /\ image = <<>>

\* ---- TestRenderer::create ----------------------------------------------
\* Variant: dithering enabled by default.
create_dithering_on(device, queue) == [device |-> device, queue |-> queue, dithering |-> TRUE]

create(device, queue) == [device |-> device, queue |-> queue, dithering |-> FALSE]

\* A direct call of the public constructor create(device, queue).
Create ==
    /\ pc = "none"
    /\ \E d \in Devices, q \in Queues :
        /\ self' = create(d, q)
        /\ built' = [device |-> d, queue |-> q]
    /\ pc' = "idle"
    /\ UNCHANGED <<newVars, lastArg, renderVars>>

\* ---- TestRenderer::new --------------------------------------------------
AdapterLists == {<<>>, <<"adapter1">>, <<"adapter2">>, <<"adapter1", "adapter2">>}
Elems(seq) == {seq[i] : i \in 1..Len(seq)}

\* One entry of the record of calls new makes; fields a call does not take keep
\* their default.  adapters is the list enumerate_adapters returned or the selector
\* was given, surface and adapter are Options, ok is whether the call returned a value.
Call(name) ==
    [call |-> name, backends |-> "none", adapters |-> <<>>, surface |-> <<>>,
     power_preference |-> "none", force_fallback_adapter |-> FALSE,
     adapter |-> <<>>, ok |-> TRUE]

\* Variant: the selector is ignored and request_adapter is always used.
AdapterPath_always_request(s) == "request_adapter"

\* Which arm of `if let Some(native_adapter_selector) = native_adapter_selector` runs.
AdapterPath(s) == IF s.native_adapter_selector THEN "selector" ELSE "request_adapter"

\* .expect(..) on the adapter Option: the position after it.
ExpectAdapter(r) == IF r = <<>> THEN "panicked" ELSE "device"

\* Variant: a failed request_device is swallowed and construction goes on.
ExpectDevice_no_abort(ok, a) ==
    IF ok
    THEN [pc |-> "create", local |-> [device |-> CreatedDevice(a), queue |-> CreatedQueue(a)]]
    ELSE [pc |-> "create", local |-> NoPair]

\* .expect("Failed to request device") on request_device's result for adapter a,
\* then (Arc::new(device), Arc::new(queue)).
ExpectDevice(ok, a) ==
    IF ok
    THEN [pc |-> "create", local |-> [device |-> CreatedDevice(a), queue |-> CreatedQueue(a)]]
    ELSE [pc |-> "panicked", local |-> NoPair]

\* Variant: the supplied queue is replaced by a newly created one.
ExistingPair_new_queue(s) == [device |-> s.device, queue |-> CreatedQueue("adapter1")]

\* The Existing arm: (device.clone(), queue.clone()).
ExistingPair(s) == [device |-> s.device, queue |-> s.queue]

\* new(CreateNew {..}): wgpu::Instance::new with the setup's backends.
NewCreateNew ==
    /\ pc = "none"
    /\ \E s \in CreateNewSetups :
        /\ setup' = s
        /\ calls' = <<[Call("Instance::new") EXCEPT !.backends = s.supported_backends]>>
    /\ pc' = "adapter"
    /\ UNCHANGED <<adapter, local, self, built, lastArg, renderVars>>

\* The Some arm: enumerate the adapters and hand them to the selector.
NewSelectAdapter ==
    /\ pc = "adapter"
    /\ AdapterPath(setup) = "selector"
    /\ \E list \in AdapterLists :
       \E r \in {<<>>} \cup {<<a>> : a \in Elems(list)} :
        /\ calls' = calls \o
              <<[Call("enumerate_adapters") EXCEPT
                     !.backends = setup.supported_backends, !.adapters = list],
                [Call("native_adapter_selector") EXCEPT
                     !.adapters = list, !.surface = <<>>, !.ok = (r # <<>>)]>>
        /\ adapter' = r
        /\ pc' = ExpectAdapter(r)
    /\ UNCHANGED <<setup, local, self, built, lastArg, renderVars>>

\* The else arm: instance.request_adapter with the setup's options.
NewRequestAdapter ==
    /\ pc = "adapter"
    /\ AdapterPath(setup) = "request_adapter"
    /\ \E r \in {<<>>} \cup {<<a>> : a \in Adapters} :
        /\ calls' = Append(calls,
              [Call("request_adapter") EXCEPT
                   !.power_preference = setup.power_preference,
                   !.force_fallback_adapter = setup.force_fallback_adapter,
                   !.surface = <<>>, !.ok = (r # <<>>)])
        /\ adapter' = r
        /\ pc' = ExpectAdapter(r)
    /\ UNCHANGED <<setup, local, self, built, lastArg, renderVars>>

\* device_descriptor(&adapter), then adapter.request_device(..).
NewRequestDevice ==
    /\ pc = "device"
    /\ \E ok \in BOOLEAN :
        /\ calls' = calls \o
              <<[Call("device_descriptor") EXCEPT !.adapter = adapter],
                [Call("request_device") EXCEPT !.adapter = adapter, !.ok = ok]>>
        /\ pc' = ExpectDevice(ok, adapter[1]).pc
        /\ local' = ExpectDevice(ok, adapter[1]).local
    /\ UNCHANGED <<setup, adapter, self, built, lastArg, renderVars>>

\* new(Existing { device, queue, .. }): the match arm clones the two handles.
NewExisting ==
    /\ pc = "none"
    /\ \E s \in ExistingSetups :
        /\ setup' = s
        /\ local' = ExistingPair(s)
    /\ pc' = "create"
    /\ UNCHANGED <<calls, adapter, self, built, lastArg, renderVars>>

\* The last statement of new: Self::create(device, queue); new's locals end here.
NewCreate ==
    /\ pc = "create"
    /\ self' = create(local.device, local.queue)
    /\ built' = [device |-> local.device, queue |-> local.queue]
    /\ pc' = "idle"
    /\ setup' = NoSetup
    /\ calls' = <<>>
    /\ adapter' = <<>>
    /\ local' = NoPair
    /\ UNCHANGED <<lastArg, renderVars>>

\* ---- TestRenderer::with_dithering ---------------------------------------
\* Variant: the argument is ignored and dithering is switched on.
with_dithering_enable(s, dithering) == [s EXCEPT !.dithering = TRUE]

\* Variant: the builder returns a renderer rebuilt without the handles.
with_dithering_rebuild(s, dithering) ==
    [device |-> NoHandle, queue |-> NoHandle, dithering |-> dithering]

with_dithering(s, dithering) == [s EXCEPT !.dithering = dithering]

WithDithering ==
    /\ pc = "idle"
    /\ \E d \in BOOLEAN :
        /\ self' = with_dithering(self, d)
        /\ lastArg' = <<d>>
    /\ UNCHANGED <<pc, newVars, built, renderVars>>

\* ---- TestRenderer::render -----------------------------------------------
\* One call of render, with the handles passed to it (NoHandle: not passed).
Op(name, device, queue) == [op |-> name, device |-> device, queue |-> queue]

\* egui_wgpu::Renderer::new(&self.device, Rgba8Unorm, None, 1, self.dithering): a
\* renderer that knows no texture yet.
RendererNew(device, dithering) ==
    [device |-> device, dithering |-> dithering, textures |-> {}]

\* Variant: the renderer is kept between calls, with the textures it was given.
RendererForCall_stored(stale, device, dithering) ==
    [RendererNew(device, dithering) EXCEPT !.textures = stale]

\* `let mut renderer = egui_wgpu::Renderer::new(..)`: the renderer of this call, a
\* new one whatever textures the renderers of earlier calls were given.
RendererForCall(stale, device, dithering) == RendererNew(device, dithering)

\* renderer.update_texture(&self.device, &self.queue, *id, image_delta): the
\* renderer now stores a texture for id.
update_texture(r, id) == [r EXCEPT !.textures = @ \cup {id}]

\* The ids visited by `for delta in &harness.texture_deltas { for (id, _) in &delta.set`.
RECURSIVE Uploads(_)
Uploads(deltas) ==
    IF deltas = <<>> THEN <<>> ELSE Head(deltas).set \o Uploads(Tail(deltas))

\* harness.ctx.tessellate(shapes, pixels_per_point): one clipped primitive per shape.
Tessellate(shapes) == [i \in 1..Len(shapes) |-> [primitive |-> shapes[i]]]

\* A command recorded in the encoder.
Command(name, load, store, primitives, textures, dithering) ==
    [cmd |-> name, load |-> load, store |-> store, primitives |-> primitives,
     textures |-> textures, dithering |-> dithering]

\* A command buffer: one of update_buffers' user buffers, or encoder.finish().
UserBuffer(i) == [kind |-> "user", id |-> i, commands |-> <<>>]
Finish(enc) == [kind |-> "encoder", id |-> 0, commands |-> enc]

\* Variant: the encoder's command buffer is submitted first.
SubmitList_encoder_first(ub, enc) == <<Finish(enc)>> \o ub

\* user_buffers.into_iter().chain(once(encoder.finish())).
SubmitList(ub, enc) == ub \o <<Finish(enc)>>

\* What the target texture holds once the command buffers bufs have run: the
\* output of the last render pass among them, if any (Option).
RECURSIVE Passes(_)
Passes(cmds) ==
    IF cmds = <<>> THEN <<>>
    ELSE (IF Head(cmds).cmd = "render_pass" THEN <<Head(cmds)>> ELSE <<>>) \o Passes(Tail(cmds))
RECURSIVE AllPasses(_)
AllPasses(bufs) ==
    IF bufs = <<>> THEN <<>> ELSE Passes(Head(bufs).commands) \o AllPasses(Tail(bufs))
Executed(bufs, before) ==
    LET ps == AllPasses(bufs)
    IN IF ps = <<>> THEN before
       ELSE <<[load |-> ps[Len(ps)].load, primitives |-> ps[Len(ps)].primitives,
               textures |-> ps[Len(ps)].textures, dithering |-> ps[Len(ps)].dithering]>>

\* render begins: the harness argument, then egui_wgpu::Renderer::new.
RenderNewRenderer ==
    /\ pc = "idle"
    /\ \E h \in Harnesses : harness' = h
    /\ renderer' = RendererForCall(earlier, self.device, self.dithering)
    /\ ops' = <<Op("Renderer::new", self.device, NoHandle)>>
    /\ pc' = "upload"
    /\ UNCHANGED <<newVars, self, built, lastArg, earlier, k, encoder, tessellated,
                   user_buffers, texture, pending, submits, image>>

\* One iteration of the nested texture loop.
RenderUpdateTexture ==
    /\ pc = "upload"
    /\ k <= Len(Uploads(harness.texture_deltas))
    /\ renderer' = update_texture(renderer, Uploads(harness.texture_deltas)[k])
    /\ ops' = Append(ops, Op("update_texture", self.device, self.queue))
    /\ k' = k + 1
    /\ UNCHANGED <<pc, newVars, self, built, lastArg, harness, earlier, encoder,
                   tessellated, user_buffers, texture, pending, submits, image>>

\* The loop is over: self.device.create_command_encoder(..).
RenderCreateEncoder ==
    /\ pc = "upload"
    /\ k > Len(Uploads(harness.texture_deltas))
    /\ encoder' = <<>>
    /\ ops' = Append(ops, Op("create_command_encoder", self.device, NoHandle))
    /\ pc' = "tessellate"
    /\ UNCHANGED <<newVars, self, built, lastArg, harness, renderer, earlier, k, tessellated,
                   user_buffers, texture, pending, submits, image>>

\* harness.ctx.tessellate(harness.output().shapes.clone(), ..).
RenderTessellate ==
    /\ pc = "tessellate"
    /\ tessellated' = Tessellate(harness.shapes)
    /\ ops' = Append(ops, Op("tessellate", NoHandle, NoHandle))
    /\ pc' = "update_buffers"
    /\ UNCHANGED <<newVars, self, built, lastArg, harness, renderer, earlier, k, encoder,
                   user_buffers, texture, pending, submits, image>>

\* renderer.update_buffers(&self.device, &self.queue, &mut encoder, ..): records the
\* buffer copies in the encoder and returns the callbacks' command buffers.
RenderUpdateBuffers ==
    /\ pc = "update_buffers"
    /\ \E n \in 0..MaxUserBuffers : user_buffers' = [i \in 1..n |-> UserBuffer(i)]
    /\ encoder' = Append(encoder,
           Command("update_buffers", "none", "none", tessellated, {}, renderer.dithering))
    /\ ops' = Append(ops, Op("update_buffers", self.device, self.queue))
    /\ pc' = "create_texture"
    /\ UNCHANGED <<newVars, self, built, lastArg, harness, renderer, earlier, k, tessellated,
                   texture, pending, submits, image>>

\* self.device.create_texture(..): contents undefined until a pass has run.
RenderCreateTexture ==
    /\ pc = "create_texture"
    /\ texture' = [created |-> TRUE, content |-> <<>>]
    /\ ops' = Append(ops, Op("create_texture", self.device, NoHandle))
    /\ pc' = "render_pass"
    /\ UNCHANGED <<newVars, self, built, lastArg, harness, renderer, earlier, k, encoder,
                   tessellated, user_buffers, pending, submits, image>>

\* encoder.begin_render_pass(Clear(TRANSPARENT), Store) and renderer.render(..).
RenderPass ==
    /\ pc = "render_pass"
    /\ encoder' = Append(encoder,
           Command("render_pass", "Clear(TRANSPARENT)", "Store", tessellated,
                   renderer.textures, renderer.dithering))
    /\ ops' = Append(ops, Op("render_pass", NoHandle, NoHandle))
    /\ pc' = "submit"
    /\ UNCHANGED <<newVars, self, built, lastArg, harness, renderer, earlier, k, tessellated,
                   user_buffers, texture, pending, submits, image>>

\* self.queue.submit(user_buffers.into_iter().chain(once(encoder.finish()))).
RenderSubmit ==
    /\ pc = "submit"
    /\ submits' = Append(submits, SubmitList(user_buffers, encoder))
    /\ pending' = pending \o SubmitList(user_buffers, encoder)
    /\ ops' = Append(ops, Op("submit", NoHandle, self.queue))
    /\ pc' = "poll"
    /\ UNCHANGED <<newVars, self, built, lastArg, harness, renderer, earlier, k, encoder,
                   tessellated, user_buffers, texture, image>>

\* Variant: the image is read back without waiting for the submitted work.
RenderPoll_skipped ==
    /\ pc = "poll"
    /\ pc' = "readback"
    /\ UNCHANGED <<newVars, self, built, lastArg, renderVars>>

\* self.device.poll(wgpu::Maintain::Wait): returns once the submitted work has run.
RenderPoll ==
    /\ pc = "poll"
    /\ texture' = [texture EXCEPT !.content = Executed(pending, @)]
    /\ pending' = <<>>
    /\ ops' = Append(ops, Op("poll", self.device, NoHandle))
    /\ pc' = "readback"
    /\ UNCHANGED <<newVars, self, built, lastArg, harness, renderer, earlier, k, encoder,
                   tessellated, user_buffers, submits, image>>

\* texture_to_image(&self.device, &self.queue, &texture), the value render returns.
RenderReadback ==
    /\ pc = "readback"
    /\ image' = <<[pixels |-> texture.content]>>
    /\ ops' = Append(ops, Op("texture_to_image", self.device, self.queue))
    /\ pc' = "returned"
    /\ UNCHANGED <<newVars, self, built, lastArg, harness, renderer, earlier, k, encoder,
                   tessellated, user_buffers, texture, pending, submits>>

\* render has returned the image: its locals are dropped and the caller goes on.
RenderReturn ==
    /\ pc = "returned"
    /\ harness' = NoHarness
    /\ k' = 1
    /\ encoder' = <<>>
    /\ tessellated' = <<>>
    /\ user_buffers' = <<>>
    /\ texture' = NoTexture
    /\ ops' = <<>>
    /\ submits' = <<>>
    /\ image' = <<>>
    /\ renderer' = NoEguiRenderer
    /\ earlier' = earlier \cup renderer.textures
    /\ pc' = "idle"
    /\ UNCHANGED <<newVars, self, built, lastArg, pending>>

Next ==
    \/ Create
    \/ NewCreateNew
    \/ NewSelectAdapter
    \/ NewRequestAdapter
    \/ NewRequestDevice
    \/ NewExisting
    \/ NewCreate
    \/ WithDithering
    \/ RenderNewRenderer
    \/ RenderUpdateTexture
    \/ RenderCreateEncoder
    \/ RenderTessellate
    \/ RenderUpdateBuffers
    \/ RenderCreateTexture
    \/ RenderPass
    \/ RenderSubmit
    \/ RenderPoll
    \/ RenderReadback
    \/ RenderReturn

Spec == Init /\ [][Next]_vars

\* ---- properties ---------------------------------------------------------
IsPrefix(a, b) == Len(a) <= Len(b) /\ \A i \in 1..Len(a) : a[i] = b[i]
OpNames == [i \in 1..Len(ops) |-> ops[i].op]
CallNames == [i \in 1..Len(calls) |-> calls[i].call]
Count(seq, x) == Cardinality({i \in 1..Len(seq) : seq[i] = x})
TexturesSet(h) ==
    UNION {Elems(h.texture_deltas[i].set) : i \in 1..Len(h.texture_deltas)}
GpuOps == {"Renderer::new", "update_texture", "create_command_encoder", "update_buffers",
           "create_texture", "submit", "poll", "texture_to_image"}

\* C1: a constructed TestRenderer on which with_dithering has not been called
\* has dithering = FALSE, whichever constructor built it, and a render it runs
\* creates its egui_wgpu::Renderer without dithering.
DitheringDisabledByDefault ==
    (Constructed /\ lastArg = <<>>) =>
        /\ self.dithering = FALSE
        /\ pc \in RenderPcs => renderer.dithering = FALSE

DitheringDisabledByDefault_witness ==
    /\ pc = "render_pass"
    /\ lastArg = <<>>
    /\ built.device = CreatedDevice("adapter2")
    /\ self.dithering = FALSE

\* C2: the renderer's device and queue are the handles it was constructed with,
\* after any calls of with_dithering and render; every call render makes passes
\* no other handle, and each GPU operation passes at least one of them.
HandlesFixed ==
    Constructed =>
        /\ self.device = built.device
        /\ self.queue = built.queue
        /\ built.device \in AllDevices
        /\ built.queue \in AllQueues
        /\ \A i \in 1..Len(ops) :
            /\ ops[i].device \in {NoHandle, built.device}
            /\ ops[i].queue \in {NoHandle, built.queue}
            /\ ops[i].op \in GpuOps => (ops[i].device # NoHandle \/ ops[i].queue # NoHandle)

HandlesFixed_witness ==
    /\ pc = "returned"
    /\ lastArg = <<TRUE>>
    /\ earlier # {}
    /\ Count(OpNames, "update_texture") = 2
    /\ ops[Len(ops)] = Op("texture_to_image", built.device, built.queue)

\* C3: after with_dithering(d) the flag is d, the argument of the last call, the
\* handles are those the renderer was built with, and a render passes the flag to
\* the egui_wgpu::Renderer it creates.
WithDitheringSetsFlag ==
    (Constructed /\ lastArg # <<>>) =>
        /\ self.dithering = lastArg[1]
        /\ self.device = built.device
        /\ self.queue = built.queue
        /\ pc \in RenderPcs => renderer.dithering = lastArg[1]

WithDitheringSetsFlag_witness ==
    /\ pc = "upload"
    /\ lastArg = <<FALSE>>
    /\ self.dithering = FALSE
    /\ renderer.dithering = FALSE
    /\ renderer.device = self.device

\* C4: in new with CreateNew, a selector that returns no adapter, a
\* request_adapter that returns none and a request_device that fails each end
\* construction in a panic with no TestRenderer; the failed call is the last call
\* made, and at most one adapter acquisition call is ever made.
FailedAcquisitionAborts ==
    /\ \A i \in 1..Len(calls) :
        ~calls[i].ok =>
            /\ i = Len(calls)
            /\ calls[i].call \in {"native_adapter_selector", "request_adapter", "request_device"}
            /\ pc = "panicked"
    /\ pc = "panicked" =>
        /\ calls # <<>>
        /\ ~calls[Len(calls)].ok
        /\ self = NoTestRenderer
        /\ built = NoPair
    /\ Count(CallNames, "native_adapter_selector") + Count(CallNames, "request_adapter") <= 1

FailedAcquisitionAborts_witness ==
    /\ pc = "panicked"
    /\ setup.native_adapter_selector
    /\ calls[Len(calls)].call = "native_adapter_selector"
    /\ calls[Len(calls)].adapters # <<>>

\* C5: new with Existing makes no instance, adapter or device call and cannot
\* panic; the pair handed to create is the supplied device and queue, and the
\* TestRenderer created holds exactly those two handles.
ExistingUsesSuppliedHandles ==
    [][(setup.kind = "Existing") =>
          /\ pc = "create"
          /\ calls = <<>>
          /\ adapter = <<>>
          /\ local.device = setup.device
          /\ local.queue = setup.queue
          /\ pc' = "idle"
          /\ self'.device = setup.device
          /\ self'.queue = setup.queue
          /\ built' = [device |-> setup.device, queue |-> setup.queue]]_vars

ExistingUsesSuppliedHandles_witness ==
    /\ pc = "create"
    /\ setup.kind = "Existing"
    /\ local = [device |-> "devB", queue |-> "queA"]

\* C6: the calls of a render are, in this order, Renderer::new, one update_texture
\* per texture set by the harness, create_command_encoder, tessellate,
\* update_buffers, create_texture, the render pass (cleared to transparent and
\* stored), submit, poll, texture_to_image; the image returned is the output of
\* that pass.
PipelineOrder(h) ==
    <<"Renderer::new">> \o [i \in 1..SetCount(h.texture_deltas) |-> "update_texture"] \o
    <<"create_command_encoder", "tessellate", "update_buffers", "create_texture",
      "render_pass", "submit", "poll", "texture_to_image">>

RenderPipelineOrder ==
    /\ pc \in RenderPcs => IsPrefix(OpNames, PipelineOrder(harness))
    /\ pc \in {"submit", "poll", "readback", "returned"} =>
        /\ encoder[Len(encoder)].cmd = "render_pass"
        /\ encoder[Len(encoder)].load = "Clear(TRANSPARENT)"
        /\ encoder[Len(encoder)].store = "Store"
    /\ pc = "returned" =>
        /\ OpNames = PipelineOrder(harness)
        /\ image = <<[pixels |-> <<[load |-> "Clear(TRANSPARENT)",
                                    primitives |-> Tessellate(harness.shapes),
                                    textures |-> TexturesSet(harness),
                                    dithering |-> self.dithering]>>]>>

RenderPipelineOrder_witness ==
    /\ pc = "returned"
    /\ Len(harness.texture_deltas) = 2
    /\ SetCount(harness.texture_deltas) = 2
    /\ harness.shapes # <<>>
    /\ Len(ops) = 11

\* C7: the textures known to the renderer of a render call are those set by the
\* texture deltas of that call's harness that the loop has reached, all of them
\* once the loop is over, and never a texture of an earlier call.
RendererTexturesFromThisCall ==
    /\ pc = "upload" =>
        renderer.textures = {Uploads(harness.texture_deltas)[i] : i \in 1..(k - 1)}
    /\ pc \in RenderPcs \ {"upload"} => renderer.textures = TexturesSet(harness)
    /\ pc = "returned" => image[1].pixels[1].textures = TexturesSet(harness)
    /\ pc \notin RenderPcs => renderer = NoEguiRenderer

RendererTexturesFromThisCall_witness ==
    /\ pc = "returned"
    /\ earlier = {"tex1", "tex2"}
    /\ harness.texture_deltas = <<[set |-> <<>>], [set |-> <<"tex2">>]>>
    /\ renderer.textures = {"tex2"}

\* C8: a render call submits once; the list submitted is the command buffers
\* update_buffers returned, in their order, followed by the finished encoder's
\* command buffer as the last element.
SingleSubmitUserBuffersFirst ==
    /\ Len(submits) = Count(OpNames, "submit")
    /\ pc \in {"upload", "tessellate", "update_buffers", "create_texture", "render_pass",
               "submit"} => submits = <<>>
    /\ pc \in {"poll", "readback", "returned"} =>
        /\ Len(submits) = 1
        /\ Len(submits[1]) = Len(user_buffers) + 1
        /\ \A i \in 1..Len(user_buffers) : submits[1][i] = user_buffers[i]
        /\ submits[1][Len(submits[1])] = [kind |-> "encoder", id |-> 0, commands |-> encoder]

SingleSubmitUserBuffersFirst_witness ==
    /\ pc = "returned"
    /\ Len(user_buffers) = MaxUserBuffers
    /\ Len(submits[1]) = MaxUserBuffers + 1

\* C9: in new with CreateNew, once the adapter has been acquired the calls after
\* Instance::new are, with a selector, enumerate_adapters(supported_backends) and
\* the selector on the enumerated list with no surface, and never request_adapter;
\* without one, request_adapter with the setup's power_preference and
\* force_fallback_adapter and no surface, and never enumerate_adapters.  The
\* device is then requested from the chosen adapter with device_descriptor(adapter).
AdapterPathExclusive ==
    (setup.kind = "CreateNew" /\ pc \in {"device", "create", "panicked"}) =>
        /\ calls[1] = [Call("Instance::new") EXCEPT !.backends = setup.supported_backends]
        /\ IF setup.native_adapter_selector
           THEN /\ Len(calls) >= 3
                /\ calls[2].call = "enumerate_adapters"
                /\ calls[2].backends = setup.supported_backends
                /\ calls[3].call = "native_adapter_selector"
                /\ calls[3].adapters = calls[2].adapters
                /\ calls[3].surface = <<>>
                /\ Count(CallNames, "request_adapter") = 0
                /\ Count(CallNames, "enumerate_adapters") = 1
                /\ Count(CallNames, "native_adapter_selector") = 1
                /\ Len(calls) > 3 =>
                    /\ Len(calls) = 5
                    /\ calls[3].ok
                    /\ adapter # <<>>
                    /\ adapter[1] \in Elems(calls[3].adapters)
                    /\ calls[4] = [Call("device_descriptor") EXCEPT !.adapter = adapter]
                    /\ calls[5].call = "request_device"
                    /\ calls[5].adapter = adapter
           ELSE /\ Len(calls) >= 2
                /\ calls[2].call = "request_adapter"
                /\ calls[2].power_preference = setup.power_preference
                /\ calls[2].force_fallback_adapter = setup.force_fallback_adapter
                /\ calls[2].surface = <<>>
                /\ Count(CallNames, "request_adapter") = 1
                /\ Count(CallNames, "enumerate_adapters") = 0
                /\ Count(CallNames, "native_adapter_selector") = 0
                /\ Len(calls) > 2 =>
                    /\ Len(calls) = 4
                    /\ calls[2].ok
                    /\ adapter # <<>>
                    /\ calls[3] = [Call("device_descriptor") EXCEPT !.adapter = adapter]
                    /\ calls[4].call = "request_device"
                    /\ calls[4].adapter = adapter

AdapterPathExclusive_witness ==
    /\ pc = "create"
    /\ setup.kind = "CreateNew"
    /\ setup.native_adapter_selector
    /\ calls[2].adapters = <<"adapter1", "adapter2">>
    /\ adapter = <<"adapter2">>
    /\ local.device = CreatedDevice("adapter2")

====
